---- MODULE Spec2Model ----
(***************************************************************************)
(* A model of stringhashtable.c: a fixed-size, separately chained hash     *)
(* table with string keys and unsigned values.                             *)
(*                                                                         *)
(* The heap is modelled explicitly: an entry is a cell of `heap` at an     *)
(* address, chains are linked through the cells' `next` fields, and the    *)
(* bucket array holds addresses (or NULL).  Every library function is an   *)
(* operator returning the new table, the new heap, the returned value and  *)
(* the branch of the code that was taken; every action applies one of      *)
(* them to the current state.                                              *)
(***************************************************************************)
EXTENDS Integers, Sequences, FiniteSets, TLC

VARIABLES
    htable,       \* the caller's hashtable* (NullTable, or the table struct)
    heap,         \* the heap cells holding hashtable_entry structs and keys
    last,         \* the last call made: function, arguments, result, branch
    hist,         \* per key, what the caller last did to it (history)
    char_signed,  \* whether plain char is signed in this build
    hpc,          \* hashtable_gethash alone: position of the call
    hsize,        \* hashtable_gethash alone: argument hashtable_size
    hkey,         \* hashtable_gethash alone: argument key
    hch,          \* hashtable_gethash alone: the loop's ch (index into key)
    hhash,        \* hashtable_gethash alone: the local hash
    hres,         \* hashtable_gethash alone: the results returned so far
    del,          \* hashtable_delete alone: its locals and position, by statement
    refs,         \* the entry pointers a caller was handed and still holds
    order,        \* the keys now stored, in the order their entries were created
    tpc           \* test_12_strings: how many of its calls have been made

tvars == <<htable, heap, last, hist>>
hvars == <<hpc, hsize, hkey, hch, hhash, hres>>
xvars == <<del, refs, order, tpc>>
vars == <<htable, heap, last, hist, char_signed, hpc, hsize, hkey, hch, hhash, hres,
          del, refs, order, tpc>>

(***************************************************************************)
(* Bounds of the model.                                                    *)
(***************************************************************************)
\* how many keys of KeyList the callers use
NumKeys == 3
\* values range over 0..MaxVal
MaxVal == 1
\* hashtable_newhashtable is called with a size in 0..MaxSize
MaxSize == 3
\* how many times hashtable_gethash is called on one input (HashSpec)
MaxCalls == 2

(***************************************************************************)
(* Pointers, keys and values.                                              *)
(***************************************************************************)
NULL == 0

\* A key is the tuple of its characters' codes (0..255, none of them 0: the
\* terminator is not part of the tuple).  NULLKEY is the null char*: it is
\* no string, since it holds a 0.
NULLKEY == <<0>>

\* "a", "ab", "c", "b", "", "ba", "e"
KeyList == << <<97>>, <<97, 98>>, <<99>>, <<98>>, <<>>, <<98, 97>>, <<101>> >>

Min(a, b) == IF a <= b THEN a ELSE b

Keys == {KeyList[i] : i \in 1..Min(NumKeys, Len(KeyList))}

KeyArgs == Keys \cup {NULLKEY}

Vals == 0..MaxVal

\* one cell per entry that can be alive at once
Addr == 1..Cardinality(Keys)

(***************************************************************************)
(* hashtable_gethash.  unsigned int is 32 bits wide; a 32-bit word is      *)
(* computed in two 16-bit limbs so that no intermediate value exceeds the  *)
(* checker's integers.  Sizes are below 2^31.                              *)
(***************************************************************************)
Limb == 2^16

\* (int)(*ch): the character's value as the build's char type gives it
CharValue(c, signed) == IF signed /\ c >= 128 THEN c - 256 ELSE c

\* (a + b) mod m for 0 <= a, b < m
AddMod(a, b, m) == IF a >= m - b THEN a - (m - b) ELSE a + b

\* (r * 2^n) mod m for 0 <= r < m, by n doublings (0 stays 0)
RECURSIVE ShlMod(_, _, _)
ShlMod(r, n, m) ==
    IF r = 0 \/ n = 0 THEN r ELSE ShlMod(AddMod(r, r, m), n - 1, m)

\* (hi * 2^16 + lo) mod m
ModLimbs(hi, lo, m) == AddMod(ShlMod(hi % m, 16, m), lo % m, m)

\* The 32-bit word ((int)c + (hash << 5) + hash), as limbs <<hi, lo>>.
HashWord(c, hash, signed) ==
    LET iv   == CharValue(c, signed)
        chi  == IF iv < 0 THEN Limb - 1 ELSE 0
        clo  == IF iv < 0 THEN Limb + iv ELSE iv
        hhi  == hash \div Limb
        hlo  == hash % Limb
        slo  == (hlo * 32) % Limb
        shi  == (hhi * 32 + ((hlo * 32) \div Limb)) % Limb
        t1lo == clo + slo
        t1hi == (chi + shi + (t1lo \div Limb)) % Limb
        t2lo == (t1lo % Limb) + hlo
        t2hi == (t1hi + hhi + (t2lo \div Limb)) % Limb
    IN  <<t2hi, t2lo % Limb>>

\* mutant: the modulo is applied to the shifted sum before the character is
\* added
HashBodyModFirst(size, c, hash, signed) ==
    LET w == HashWord(0, hash, signed)
    IN  ModLimbs(w[1], w[2], size) + CharValue(c, signed)

\* The loop's body: hash = ((int)(*ch) + (hash << 5) + hash) % hashtable_size.
\* For hash below 2^16 and (int)(*ch) not negative the sum is below 2^22 and
\* is computed as written; otherwise it is computed in limbs.
HashBody(size, c, hash, signed) ==
    IF hash < Limb /\ CharValue(c, signed) >= 0
    THEN (CharValue(c, signed) + (hash * 32) + hash) % size
    ELSE LET w == HashWord(c, hash, signed) IN ModLimbs(w[1], w[2], size)

\* The for loop, from the state st = [ch, hash] of its two variables on
RECURSIVE HashLoop(_, _, _, _)
HashLoop(size, key, st, signed) ==
    IF st.ch > Len(key) THEN st.hash
    ELSE HashLoop(size, key,
                  [ch |-> st.ch + 1,
                   hash |-> HashBody(size, key[st.ch], st.hash, signed)],
                  signed)

hashtable_gethash(size, key, signed) ==
    HashLoop(size, key, [ch |-> 1, hash |-> 0], signed)

(***************************************************************************)
(* The heap.  A cell holds one hashtable_entry together with the 65-byte   *)
(* key buffer it owns.  erease() zeroes a block and frees it: a released   *)
(* cell is all zeros and not live.                                         *)
(***************************************************************************)
FreeCell == [live |-> FALSE, key |-> <<>>, val |-> 0, next |-> NULL]

EmptyHeap == [a \in Addr |-> FreeCell]

\* malloc returns some free cell, and the code never looks at which.  The
\* model names the cells by their use: the cell returned for an entry of
\* KeyList[i] is cell i, or the lowest free cell were cell i not free.
malloc(hp, key) ==
    IF \E i \in Addr : KeyList[i] = key /\ ~hp[i].live
    THEN CHOOSE i \in Addr : KeyList[i] = key /\ ~hp[i].live
    ELSE CHOOSE a \in DOMAIN hp :
             ~hp[a].live /\ \A b \in DOMAIN hp : ~hp[b].live => a <= b

\* erease(pointer, size): memset to zero, then free
erease(hp, a) == [hp EXCEPT ![a] = FreeCell]

\* hashtable* htable = NULL
NullTable == [size |-> 0, different_entries |-> 0, collisions |-> 0, table |-> <<>>]

\* (x)++ and (x)-- on an unsigned int: 0 - 1 wraps to UINT_MAX, written here
\* as its residue -1 (2^32 - 1 exceeds the checker's integers)
UInc(x) == x + 1
\* mutant: the decrement is forgotten
UDecSkip(x) == x
UDec(x) == IF x = 0 THEN -1 ELSE x - 1

\* mutant: only size 0 is refused
hashtable_newhashtable_size1(size) ==
    IF size < 1 THEN NullTable
    ELSE [size |-> size, different_entries |-> 0, collisions |-> 0,
          table |-> [i \in 0..(size - 1) |-> NULL]]

\* hashtable_newhashtable(size): the table returned, NullTable for NULL
hashtable_newhashtable(size) ==
    IF size < 2 THEN NullTable
    ELSE [size |-> size, different_entries |-> 0, collisions |-> 0,
          table |-> [i \in 0..(size - 1) |-> NULL]]

\* hashtable_newentry(key, val): the new heap and the entry returned
hashtable_newentry(hp, key, val) ==
    IF key = NULLKEY THEN [heap |-> hp, ret |-> NULL]
    ELSE LET a == malloc(hp, key)
         IN  [heap |-> [hp EXCEPT ![a] = [live |-> TRUE, key |-> key,
                                          val |-> val, next |-> NULL]],
              ret |-> a]

\* mutant: the loop never compares the keys and always runs to the tail
RECURSIVE InsertScanNoMatch(_, _, _)
InsertScanNoMatch(hp, cur, key) ==
    IF hp[cur].next = NULL THEN [found |-> FALSE, entry |-> cur]
    ELSE InsertScanNoMatch(hp, hp[cur].next, key)

\* mutant: the end of the chain is tested before the key is compared, so
\* the last entry's key is never compared
RECURSIVE InsertScanSkipsTail(_, _, _)
InsertScanSkipsTail(hp, cur, key) ==
    IF hp[cur].next = NULL THEN [found |-> FALSE, entry |-> cur]
    ELSE IF hp[cur].key = key THEN [found |-> TRUE, entry |-> cur]
    ELSE InsertScanSkipsTail(hp, hp[cur].next, key)

\* hashtable_insert's while(true) loop from current_entry on: where it
\* breaks, and whether the key was found
RECURSIVE InsertScan(_, _, _)
InsertScan(hp, cur, key) ==
    IF hp[cur].key = key THEN [found |-> TRUE, entry |-> cur]
    ELSE IF hp[cur].next = NULL THEN [found |-> FALSE, entry |-> cur]
    ELSE InsertScan(hp, hp[cur].next, key)

\* mutant: every new key counts as a distinct entry, also at a chain's end
InsertAppendCountsDistinct(ht, hp, entry, key, val) ==
    LET n == hashtable_newentry(hp, key, val)
    IN  [htable |-> [ht EXCEPT !.different_entries = UInc(@)],
         heap |-> [n.heap EXCEPT ![entry].next = n.ret],
         ret |-> n.ret, branch |-> "append"]

\* mutant: the first entry of a bucket is counted as a collision
InsertFirstCountsCollision(ht, hp, hash, key, val) ==
    LET n == hashtable_newentry(hp, key, val)
    IN  [htable |-> [ht EXCEPT !.table[hash] = n.ret,
                               !.collisions = UInc(@)],
         heap |-> n.heap, ret |-> n.ret, branch |-> "first"]

\* mutant: the new entry is stored in the bucket after the key's
InsertFirstNextBucket(ht, hp, hash, key, val) ==
    LET n == hashtable_newentry(hp, key, val)
    IN  [htable |-> [ht EXCEPT !.table[(hash + 1) % ht.size] = n.ret,
                               !.different_entries = UInc(@)],
         heap |-> n.heap, ret |-> n.ret, branch |-> "first"]

\* current_entry == NULL: the new entry becomes the head of the chain
InsertFirst(ht, hp, hash, key, val) ==
    LET n == hashtable_newentry(hp, key, val)
    IN  [htable |-> [ht EXCEPT !.table[hash] = n.ret,
                               !.different_entries = UInc(@)],
         heap |-> n.heap, ret |-> n.ret, branch |-> "first"]

\* mutant: an update is counted as a collision
InsertUpdateCounts(ht, hp, entry, val) ==
    [htable |-> [ht EXCEPT !.collisions = UInc(@)],
     heap |-> [hp EXCEPT ![entry].val = val],
     ret |-> entry, branch |-> "update"]

\* found: the key is already present, so update its value
InsertUpdate(ht, hp, entry, val) ==
    [htable |-> ht, heap |-> [hp EXCEPT ![entry].val = val],
     ret |-> entry, branch |-> "update"]

\* mutant: the new key takes the place of the last entry, which moves behind
\* it
InsertAppendBeforeTail(ht, hp, entry, key, val) ==
    LET n == hashtable_newentry(hp, key, val)
    IN  [htable |-> [ht EXCEPT !.collisions = UInc(@)],
         heap |-> [n.heap EXCEPT
                     ![entry] = [live |-> TRUE, key |-> key, val |-> val,
                                 next |-> n.ret],
                     ![n.ret] = [live |-> TRUE, key |-> hp[entry].key,
                                 val |-> hp[entry].val, next |-> NULL]],
         ret |-> entry, branch |-> "append"]

\* not found: insert the key at the end of the chain, after `entry`
InsertAppend(ht, hp, entry, key, val) ==
    LET n == hashtable_newentry(hp, key, val)
    IN  [htable |-> [ht EXCEPT !.collisions = UInc(@)],
         heap |-> [n.heap EXCEPT ![entry].next = n.ret],
         ret |-> n.ret, branch |-> "append"]

\* mutant: key is not compared with NULL
hashtable_insert_unchecked_key(ht, hp, key, val, signed) ==
    IF ht = NullTable
    THEN [htable |-> ht, heap |-> hp, ret |-> NULL, branch |-> "invalid"]
    ELSE
      LET hash == hashtable_gethash(ht.size, key, signed)
          current_entry == ht.table[hash]
      IN  IF current_entry = NULL
          THEN InsertFirst(ht, hp, hash, key, val)
          ELSE LET s == InsertScan(hp, current_entry, key)
               IN  IF s.found
                   THEN InsertUpdate(ht, hp, s.entry, val)
                   ELSE InsertAppend(ht, hp, s.entry, key, val)

\* hashtable_insert(htable, key, val)
hashtable_insert(ht, hp, key, val, signed) ==
    IF ht = NullTable \/ key = NULLKEY
    THEN [htable |-> ht, heap |-> hp, ret |-> NULL, branch |-> "invalid"]
    ELSE
      LET hash == hashtable_gethash(ht.size, key, signed)
          current_entry == ht.table[hash]
      IN  IF current_entry = NULL
          THEN InsertFirst(ht, hp, hash, key, val)
          ELSE LET s == InsertScan(hp, current_entry, key)
               IN  IF s.found
                   THEN InsertUpdate(ht, hp, s.entry, val)
                   ELSE InsertAppend(ht, hp, s.entry, key, val)

\* mutant: the loop compares no key and stops at the head
DeleteScanFirst(hp, prev, cur, key) ==
    [previous_entry |-> prev, current_entry |-> cur]

\* mutant: the loop stops at the tail instead of running off the chain
RECURSIVE DeleteScanToTail(_, _, _, _)
DeleteScanToTail(hp, prev, cur, key) ==
    IF hp[cur].next /= NULL /\ hp[cur].key /= key
    THEN DeleteScanToTail(hp, cur, hp[cur].next, key)
    ELSE [previous_entry |-> prev, current_entry |-> cur]

\* hashtable_delete's search loop: previous_entry and current_entry at its end
RECURSIVE DeleteScan(_, _, _, _)
DeleteScan(hp, prev, cur, key) ==
    IF cur /= NULL /\ hp[cur].key /= key
    THEN DeleteScan(hp, cur, hp[cur].next, key)
    ELSE [previous_entry |-> prev, current_entry |-> cur]

\* mutant: removing a head that has successors counts as one distinct
\* entry less
DeleteUnlinkHeadMiscount(ht, hp, hash, prev, cur) ==
    IF prev = cur
    THEN IF hp[cur].next = NULL
         THEN [htable |-> [ht EXCEPT !.table[hash] = NULL,
                                     !.different_entries = UDec(@)],
               heap |-> hp, branch |-> "sole"]
         ELSE [htable |-> [ht EXCEPT !.table[hash] = hp[cur].next,
                                     !.different_entries = UDec(@)],
               heap |-> hp, branch |-> "head"]
    ELSE [htable |-> [ht EXCEPT !.collisions = UDec(@)],
          heap |-> [hp EXCEPT ![prev].next = hp[cur].next],
          branch |-> "splice"]

\* mutant: removing the only entry of a bucket counts as one collision less
DeleteUnlinkSoleMiscount(ht, hp, hash, prev, cur) ==
    IF prev = cur
    THEN IF hp[cur].next = NULL
         THEN [htable |-> [ht EXCEPT !.table[hash] = NULL,
                                     !.collisions = UDec(@)],
               heap |-> hp, branch |-> "sole"]
         ELSE [htable |-> [ht EXCEPT !.table[hash] = hp[cur].next,
                                     !.collisions = UDec(@)],
               heap |-> hp, branch |-> "head"]
    ELSE [htable |-> [ht EXCEPT !.collisions = UDec(@)],
          heap |-> [hp EXCEPT ![prev].next = hp[cur].next],
          branch |-> "splice"]

\* The entry was found: take current_entry out of its chain and fix the
\* counters (the three cases of the if on previous_entry == current_entry)
DeleteUnlink(ht, hp, hash, prev, cur) ==
    IF prev = cur
    THEN IF hp[cur].next = NULL
         THEN [htable |-> [ht EXCEPT !.table[hash] = NULL,
                                     !.different_entries = UDec(@)],
               heap |-> hp, branch |-> "sole"]
         ELSE [htable |-> [ht EXCEPT !.table[hash] = hp[cur].next,
                                     !.collisions = UDec(@)],
               heap |-> hp, branch |-> "head"]
    ELSE [htable |-> [ht EXCEPT !.collisions = UDec(@)],
          heap |-> [hp EXCEPT ![prev].next = hp[cur].next],
          branch |-> "splice"]

\* hashtable_delete(htable, key)
hashtable_delete(ht, hp, key, signed) ==
    IF ht = NullTable \/ key = NULLKEY
    THEN [htable |-> ht, heap |-> hp, ret |-> 0, branch |-> "invalid"]
    ELSE
      LET hash == hashtable_gethash(ht.size, key, signed)
          head == ht.table[hash]
      IN  IF head = NULL
          THEN [htable |-> ht, heap |-> hp, ret |-> 0, branch |-> "empty"]
          ELSE
            LET s   == DeleteScan(hp, head, head, key)
                cur == s.current_entry
            IN  IF cur /= NULL
                THEN LET val == hp[cur].val
                         u   == DeleteUnlink(ht, hp, hash, s.previous_entry, cur)
                     IN  [htable |-> u.htable, heap |-> erease(u.heap, cur),
                          ret |-> val, branch |-> u.branch]
                ELSE [htable |-> ht, heap |-> hp, ret |-> 0, branch |-> "absent"]

\* mutant: the loop returns the first entry of the chain, whatever its key
GetScanFirst(hp, cur, key) == cur

\* hashtable_get's while(true) loop from current_entry on
RECURSIVE GetScan(_, _, _)
GetScan(hp, cur, key) ==
    IF cur = NULL THEN NULL
    ELSE IF hp[cur].key = key THEN cur
    ELSE GetScan(hp, hp[cur].next, key)

\* hashtable_get(htable, key): the entry returned, or NULL
hashtable_get(ht, hp, key, signed) ==
    IF ht = NullTable \/ key = NULLKEY THEN NULL
    ELSE GetScan(hp, ht.table[hashtable_gethash(ht.size, key, signed)], key)

(***************************************************************************)
(* The callers: test_12_strings and test_100000_strings create one table   *)
(* and then call insert, delete and get on it.                             *)
(***************************************************************************)
NoCall == [op |-> "none", key |-> NULLKEY, val |-> 0, ret |-> NULL, branch |-> "none"]

\* what the calls made so far leave of a key: nothing, or the value stored
Absent == [stored |-> FALSE, val |-> 0]
Stored(v) == [stored |-> TRUE, val |-> v]

\* an all-zero hashtable_entry record, as memset leaves it
ZeroEntry == [key |-> NULL, val |-> 0, next |-> NULL]

\* hashtable_delete is not running
DelIdle ==
    [pc |-> "idle", key |-> NULLKEY, previous_entry |-> NULL,
     current_entry |-> NULL, val |-> 0, ret |-> 0, branch |-> "none",
     pointer |-> NULL, key_freed |-> FALSE, key_residue |-> <<>>,
     entry_wiped |-> FALSE, entry_freed |-> FALSE, entry_residue |-> ZeroEntry,
     pre |-> [htable |-> NullTable, heap |-> EmptyHeap]]

HashIdle ==
    /\ hpc = "idle" /\ hsize = 1 /\ hkey = <<>> /\ hch = 0 /\ hhash = 0
    /\ hres = <<>>

Init ==
    /\ htable = NullTable
    /\ heap = EmptyHeap
    /\ last = NoCall
    /\ hist = [k \in Keys |-> Absent]
    /\ char_signed = TRUE
    /\ HashIdle
    /\ del = DelIdle
    /\ refs = {}
    /\ order = <<>>
    /\ tpc = 0

\* htable = hashtable_newhashtable(size), once no table exists yet
NewTable(size) ==
    /\ htable = NullTable
    /\ htable' = hashtable_newhashtable(size)
    /\ last' = [op |-> "newhashtable", key |-> NULLKEY, val |-> size,
                ret |-> IF htable' = NullTable THEN NULL ELSE 1,
                branch |-> IF size < 2 THEN "invalid" ELSE "created"]
    /\ UNCHANGED <<heap, hist, char_signed, hvars, xvars>>

\* hashtable_insert(htable, key, val)
Insert(key, val) ==
    LET r == hashtable_insert(htable, heap, key, val, char_signed)
    IN  /\ htable' = r.htable
        /\ heap' = r.heap
        /\ last' = [op |-> "insert", key |-> key, val |-> val, ret |-> r.ret,
                    branch |-> r.branch]
        /\ hist' = IF htable /= NullTable /\ key /= NULLKEY
                   THEN [hist EXCEPT ![key] = Stored(val)]
                   ELSE hist
        /\ UNCHANGED <<char_signed, hvars, xvars>>

\* hashtable_delete(htable, key)
Delete(key) ==
    LET r == hashtable_delete(htable, heap, key, char_signed)
    IN  /\ htable' = r.htable
        /\ heap' = r.heap
        /\ last' = [op |-> "delete", key |-> key, val |-> 0, ret |-> r.ret,
                    branch |-> r.branch]
        /\ hist' = IF htable /= NullTable /\ key /= NULLKEY
                   THEN [hist EXCEPT ![key] = Absent]
                   ELSE hist
        /\ UNCHANGED <<char_signed, hvars, xvars>>

\* hashtable_get(htable, key)
Get(key) ==
    LET r == hashtable_get(htable, heap, key, char_signed)
    IN  /\ last' = [op |-> "get", key |-> key, val |-> 0, ret |-> r,
                    branch |-> IF r = NULL THEN "null" ELSE "found"]
        /\ UNCHANGED <<htable, heap, hist, char_signed, hvars, xvars>>

Next ==
    \/ \E size \in 0..MaxSize : NewTable(size)
    \/ \E key \in KeyArgs, val \in Vals : Insert(key, val)
    \/ \E key \in KeyArgs : Delete(key)
    \/ \E key \in KeyArgs : Get(key)

Spec == Init /\ [][Next]_vars

(***************************************************************************)
(* hashtable_gethash on its own, one loop iteration per step, on sizes and *)
(* keys beyond those of the small tables above.                            *)
(***************************************************************************)
\* 16 and 262144 are the sizes of test_12_strings and test_100000_strings
HashSizes == (1..MaxSize) \cup {16, 262144, 134217729, 2147483647}

\* "abc", "8ct4xaucod", a key with bytes above 127, "~~~~~~~"
HashKeys ==
    Keys \cup { <<97, 98, 99>>,
                <<56, 99, 116, 52, 120, 97, 117, 99, 111, 100>>,
                <<233, 126, 255>>,
                <<126, 126, 126, 126, 126, 126, 126>> }

HashInit ==
    /\ htable = NullTable
    /\ heap = EmptyHeap
    /\ last = NoCall
    /\ hist = [k \in Keys |-> Absent]
    /\ char_signed \in BOOLEAN
    /\ hpc = "idle"
    /\ hsize \in HashSizes
    /\ hkey \in HashKeys
    /\ hch = 0
    /\ hhash = 0
    /\ hres = <<>>
    /\ del = DelIdle
    /\ refs = {}
    /\ order = <<>>
    /\ tpc = 0

\* unsigned int hash = 0; ch = key
HashCall ==
    /\ hpc = "idle"
    /\ Len(hres) < MaxCalls
    /\ hpc' = "loop"
    /\ hhash' = 0
    /\ hch' = 1
    /\ UNCHANGED <<tvars, char_signed, xvars, hsize, hkey, hres>>

\* one iteration of the for loop: *ch != '\0'
HashIter ==
    /\ hpc = "loop"
    /\ hch <= Len(hkey)
    /\ hhash' = HashBody(hsize, hkey[hch], hhash, char_signed)
    /\ hch' = hch + 1
    /\ UNCHANGED <<tvars, char_signed, xvars, hpc, hsize, hkey, hres>>

\* *ch == '\0': return hash
HashReturn ==
    /\ hpc = "loop"
    /\ hch > Len(hkey)
    /\ hres' = Append(hres, hhash)
    /\ hpc' = "idle"
    /\ UNCHANGED <<tvars, char_signed, xvars, hsize, hkey, hch, hhash>>

HashNext == HashCall \/ HashIter \/ HashReturn

HashSpec == HashInit /\ [][HashNext]_vars

(***************************************************************************)
(* hashtable_delete on its own, statement by statement from the point its  *)
(* search loop has ended, with erease() split into its memset and its      *)
(* free.  The key buffer of an entry is the `key` field of its cell; what  *)
(* a released block still holds is kept as its residue.                    *)
(***************************************************************************)
\* mutant: the store is dropped, the block keeps its bytes
memset_key_elided(hp, a) == hp

\* memset(pointer, '\0', 65) on the key buffer of the entry at a
memset_key(hp, a) == [hp EXCEPT ![a].key = <<>>]

\* memset(pointer, '\0', sizeof(hashtable_entry)) on the entry at a
memset_entry(hp, a) == [hp EXCEPT ![a].val = 0, ![a].next = NULL]

\* free(pointer) on the entry at a
free_entry(hp, a) == [hp EXCEPT ![a].live = FALSE]

\* the statement that follows statement pc of lines 185-206
DelNextPc(pc) ==
    CASE pc = "read_val"            -> "unlink"
      [] pc = "unlink"              -> "erease_key_memset"
      [] pc = "erease_key_memset"   -> "erease_key_free"
      [] pc = "erease_key_free"     -> "erease_entry_memset"
      [] pc = "erease_entry_memset" -> "erease_entry_free"
      [] pc = "erease_entry_free"   -> "return_val"

\* lines 163-182: the argument checks, the hash, the empty-bucket return and
\* the search loop
DelCall(key) ==
    /\ del.pc = "idle"
    /\ LET start == [DelIdle EXCEPT !.key = key,
                                    !.pre = [htable |-> htable, heap |-> heap]]
           quit(b) == [start EXCEPT !.pc = "return", !.ret = 0, !.branch = b]
       IN  del' =
             IF htable = NullTable \/ key = NULLKEY THEN quit("invalid")
             ELSE LET head == htable.table[hashtable_gethash(htable.size, key, char_signed)]
                  IN  IF head = NULL THEN quit("empty")
                      ELSE LET s == DeleteScan(heap, head, head, key)
                           IN  IF s.current_entry = NULL THEN quit("absent")
                               ELSE [start EXCEPT
                                       !.pc = "read_val",
                                       !.previous_entry = s.previous_entry,
                                       !.current_entry = s.current_entry]
    /\ UNCHANGED <<tvars, char_signed, hvars, refs, order, tpc>>

\* line 185: int val = current_entry->val
DelReadVal ==
    /\ del.pc = "read_val"
    /\ del' = [del EXCEPT !.pc = DelNextPc(del.pc),
                          !.val = heap[del.current_entry].val]
    /\ UNCHANGED <<tvars, char_signed, hvars, refs, order, tpc>>

\* lines 188-200: the entry is taken out of its chain, a counter goes down
DelUnlinkStep ==
    /\ del.pc = "unlink"
    /\ LET u == DeleteUnlink(htable, heap,
                             hashtable_gethash(htable.size, del.key, char_signed),
                             del.previous_entry, del.current_entry)
       IN  /\ htable' = u.htable
           /\ heap' = u.heap
           /\ del' = [del EXCEPT !.pc = DelNextPc(del.pc), !.branch = u.branch]
    /\ UNCHANGED <<last, hist, char_signed, hvars, refs, order, tpc>>

\* line 203, erease(current_entry->key, 65), up to its memset: the pointer
\* is read from the entry record (NULL once the record is zeroed), and
\* erease returns at once on NULL
DelKeyMemset ==
    /\ del.pc = "erease_key_memset"
    /\ LET p == IF del.entry_wiped THEN NULL ELSE del.current_entry
       IN  /\ del' = [del EXCEPT !.pc = DelNextPc(del.pc), !.pointer = p]
           /\ heap' = IF p = NULL THEN heap ELSE memset_key(heap, p)
    /\ UNCHANGED <<htable, last, hist, char_signed, hvars, refs, order, tpc>>

\* line 203, the free of the key buffer
DelKeyFree ==
    /\ del.pc = "erease_key_free"
    /\ del' = IF del.pointer = NULL
              THEN [del EXCEPT !.pc = DelNextPc(del.pc)]
              ELSE [del EXCEPT !.pc = DelNextPc(del.pc),
                               !.key_freed = TRUE,
                               !.key_residue = heap[del.pointer].key]
    /\ UNCHANGED <<tvars, char_signed, hvars, refs, order, tpc>>

\* line 204, erease(current_entry, sizeof(hashtable_entry)), its memset
DelEntryMemset ==
    /\ del.pc = "erease_entry_memset"
    /\ heap' = memset_entry(heap, del.current_entry)
    /\ del' = [del EXCEPT !.pc = DelNextPc(del.pc), !.entry_wiped = TRUE]
    /\ UNCHANGED <<htable, last, hist, char_signed, hvars, refs, order, tpc>>

\* line 204, the free of the entry record
DelEntryFree ==
    /\ del.pc = "erease_entry_free"
    /\ heap' = free_entry(heap, del.current_entry)
    /\ del' = [del EXCEPT
                 !.pc = DelNextPc(del.pc),
                 !.entry_freed = TRUE,
                 !.entry_residue =
                     [key  |-> IF del.entry_wiped THEN NULL ELSE del.current_entry,
                      val  |-> heap[del.current_entry].val,
                      next |-> heap[del.current_entry].next]]
    /\ UNCHANGED <<htable, last, hist, char_signed, hvars, refs, order, tpc>>

\* lines 165, 174, 209: return 0; line 206: return val
DelReturn ==
    /\ del.pc \in {"return", "return_val"}
    /\ last' = [op |-> "delete", key |-> del.key, val |-> 0,
                ret |-> IF del.pc = "return_val" THEN del.val ELSE 0,
                branch |-> del.branch]
    /\ hist' = IF htable /= NullTable /\ del.key /= NULLKEY
               THEN [hist EXCEPT ![del.key] = Absent]
               ELSE hist
    /\ del' = DelIdle
    /\ UNCHANGED <<htable, heap, char_signed, hvars, refs, order, tpc>>

DeleteNext ==
    \/ del.pc = "idle" /\ \E size \in 0..MaxSize : NewTable(size)
    \/ del.pc = "idle" /\ \E key \in KeyArgs, val \in Vals : Insert(key, val)
    \/ \E key \in KeyArgs : DelCall(key)
    \/ DelReadVal
    \/ DelUnlinkStep
    \/ DelKeyMemset
    \/ DelKeyFree
    \/ DelEntryMemset
    \/ DelEntryFree
    \/ DelReturn

DeleteSpec == Init /\ [][DeleteNext]_vars

(***************************************************************************)
(* A caller that keeps every hashtable_entry pointer hashtable_insert and   *)
(* hashtable_get return to it.  `order` is history: the keys whose entries *)
(* exist, in the order hashtable_newentry created them.                    *)
(***************************************************************************)
\* the sequence s without its elements equal to x
Remove(s, x) == LET keep(y) == y /= x IN SelectSeq(s, keep)

\* e = hashtable_insert(htable, key, val); refs is every entry pointer the
\* library has handed out, hence a superset of what any caller holds
CallerInsert(key, val) ==
    LET r == hashtable_insert(htable, heap, key, val, char_signed)
    IN  /\ htable' = r.htable
        /\ heap' = r.heap
        /\ refs' = IF r.ret = NULL THEN refs ELSE refs \cup {r.ret}
        /\ order' = IF r.branch \in {"first", "append"}
                    THEN Append(order, key) ELSE order
        /\ UNCHANGED <<last, hist, char_signed, hvars, del, tpc>>

\* e = hashtable_get(htable, key)
CallerGet(key) ==
    LET r == hashtable_get(htable, heap, key, char_signed)
    IN  /\ refs' = IF r = NULL THEN refs ELSE refs \cup {r}
        /\ UNCHANGED <<tvars, char_signed, hvars, del, order, tpc>>

\* hashtable_delete(htable, key); the caller's pointers stay as they are
CallerDelete(key) ==
    LET r == hashtable_delete(htable, heap, key, char_signed)
    IN  /\ htable' = r.htable
        /\ heap' = r.heap
        /\ order' = IF r.branch \in {"sole", "head", "splice"}
                    THEN Remove(order, key) ELSE order
        /\ UNCHANGED <<last, hist, char_signed, hvars, del, refs, tpc>>

CallerNext ==
    \/ \E size \in 0..MaxSize : NewTable(size)
    \/ \E key \in KeyArgs, val \in Vals : CallerInsert(key, val)
    \/ \E key \in KeyArgs : CallerGet(key)
    \/ \E key \in KeyArgs : CallerDelete(key)

CallerSpec == Init /\ [][CallerNext]_vars

(***************************************************************************)
(* test_12_strings, call by call; the hashtable_gethash call that each     *)
(* insert and delete makes first is run one loop iteration per step.       *)
(***************************************************************************)
\* hashtable_newhashtable(16)
TestSize == 16

\* 8ct4xaucod, 7i2pefipwc, mmnoy7c6yq, ouam4phm2c, e2xztziqtj, wrrw5arl6d,
\* 7lc5pgl8kd, 93i5i8sx17, 6kkd8e0zq1, yeqmy6bjmk, hn1gybiuy6, 5wr2vyui8t
TestKeys ==
    << <<56, 99, 116, 52, 120, 97, 117, 99, 111, 100>>,
       <<55, 105, 50, 112, 101, 102, 105, 112, 119, 99>>,
       <<109, 109, 110, 111, 121, 55, 99, 54, 121, 113>>,
       <<111, 117, 97, 109, 52, 112, 104, 109, 50, 99>>,
       <<101, 50, 120, 122, 116, 122, 105, 113, 116, 106>>,
       <<119, 114, 114, 119, 53, 97, 114, 108, 54, 100>>,
       <<55, 108, 99, 53, 112, 103, 108, 56, 107, 100>>,
       <<57, 51, 105, 53, 105, 56, 115, 120, 49, 55>>,
       <<54, 107, 107, 100, 56, 101, 48, 122, 113, 49>>,
       <<121, 101, 113, 109, 121, 54, 98, 106, 109, 107>>,
       <<104, 110, 49, 103, 121, 98, 105, 117, 121, 54>>,
       <<53, 119, 114, 50, 118, 121, 117, 105, 56, 116>> >>

\* the calls after hashtable_newhashtable: 12 inserts with value 0, 4 deletes
\* (7lc5pgl8kd, 6kkd8e0zq1, e2xztziqtj, yeqmy6bjmk), 3 inserts that change a
\* value (ouam4phm2c -> 37, 93i5i8sx17 -> 55, 5wr2vyui8t -> 79)
TestCalls ==
    [n \in 1..12 |-> [op |-> "insert", key |-> TestKeys[n], val |-> 0]]
    \o << [op |-> "delete", key |-> TestKeys[7], val |-> 0],
          [op |-> "delete", key |-> TestKeys[9], val |-> 0],
          [op |-> "delete", key |-> TestKeys[5], val |-> 0],
          [op |-> "delete", key |-> TestKeys[10], val |-> 0],
          [op |-> "insert", key |-> TestKeys[4], val |-> 37],
          [op |-> "insert", key |-> TestKeys[8], val |-> 55],
          [op |-> "insert", key |-> TestKeys[12], val |-> 79] >>

TestInit ==
    /\ htable = NullTable
    /\ heap = [a \in 1..Len(TestKeys) |-> FreeCell]
    /\ last = NoCall
    /\ hist = [k \in Keys |-> Absent]
    /\ char_signed \in BOOLEAN
    /\ HashIdle
    /\ del = DelIdle
    /\ refs = {}
    /\ order = <<>>
    /\ tpc = 0

\* hashtable* htable = hashtable_newhashtable(16)
TestNewTable ==
    /\ tpc = 0
    /\ htable' = hashtable_newhashtable(TestSize)
    /\ last' = [op |-> "newhashtable", key |-> NULLKEY, val |-> TestSize,
                ret |-> IF htable' = NullTable THEN NULL ELSE 1,
                branch |-> "created"]
    /\ tpc' = 1
    /\ UNCHANGED <<heap, hist, char_signed, hvars, del, refs, order>>

\* the next call of the test begins: it calls hashtable_gethash on its key
TestCall ==
    /\ tpc \in 1..Len(TestCalls)
    /\ hpc = "idle"
    /\ hpc' = "loop"
    /\ hsize' = htable.size
    /\ hkey' = TestCalls[tpc].key
    /\ hch' = 1
    /\ hhash' = 0
    /\ UNCHANGED <<tvars, char_signed, hres, xvars>>

\* the hash is computed: the rest of hashtable_insert or hashtable_delete
TestApply ==
    /\ tpc \in 1..Len(TestCalls)
    /\ hpc = "loop"
    /\ hch > Len(hkey)
    /\ LET call == TestCalls[tpc]
           r == IF call.op = "insert"
                THEN hashtable_insert(htable, heap, call.key, call.val, char_signed)
                ELSE hashtable_delete(htable, heap, call.key, char_signed)
       IN  /\ htable' = r.htable
           /\ heap' = r.heap
           /\ last' = [op |-> call.op, key |-> call.key, val |-> call.val,
                       ret |-> r.ret, branch |-> r.branch]
    /\ hpc' = "idle"
    /\ tpc' = tpc + 1
    /\ UNCHANGED <<hist, char_signed, hsize, hkey, hch, hhash, hres, del, refs, order>>

TestNext == TestNewTable \/ TestCall \/ HashIter \/ TestApply

TestSpec == TestInit /\ [][TestNext]_vars

(***************************************************************************)
(* Reading a table: its buckets and chains.                                *)
(***************************************************************************)
Buckets(ht) == DOMAIN ht.table

\* the entries linked from a on through next (at most fuel of them)
RECURSIVE ChainFrom(_, _, _)
ChainFrom(hp, a, fuel) ==
    IF a = NULL \/ fuel = 0 THEN <<>>
    ELSE <<a>> \o ChainFrom(hp, hp[a].next, fuel - 1)

\* the chain of bucket i, head to tail, as the addresses of its entries
Chain(ht, hp, i) == ChainFrom(hp, ht.table[i], Cardinality(DOMAIN hp) + 1)

\* the same chain as (key, val) pairs
ChainPairs(ht, hp, i) ==
    LET c == Chain(ht, hp, i)
    IN  [n \in 1..Len(c) |-> [key |-> hp[c[n]].key, val |-> hp[c[n]].val]]

RECURSIVE SumLen(_, _, _)
SumLen(ht, hp, B) ==
    IF B = {} THEN 0
    ELSE LET i == CHOOSE j \in B : TRUE
         IN  Len(Chain(ht, hp, i)) + SumLen(ht, hp, B \ {i})

\* number of entries across all buckets
TotalEntries(ht, hp) == SumLen(ht, hp, Buckets(ht))

\* number of non-empty buckets
NonEmptyBuckets(ht) == Cardinality({i \in Buckets(ht) : ht.table[i] /= NULL})

\* the keys the calls made so far have stored and not deleted
StoredKeys == {k \in Keys : hist[k].stored}

\* position of address a in the sequence c (0 when it is not in it)
PosIn(c, a) == IF \E n \in 1..Len(c) : c[n] = a
               THEN CHOOSE n \in 1..Len(c) : c[n] = a ELSE 0

(***************************************************************************)
(* C1.  In every reachable state collisions = (entries across all buckets) *)
(* - (non-empty buckets), different_entries = number of non-empty buckets, *)
(* so entries = different_entries + collisions; neither counter has        *)
(* wrapped below zero.                                                     *)
(***************************************************************************)
C1_CounterInvariant ==
    htable /= NullTable =>
        /\ htable.collisions = TotalEntries(htable, heap) - NonEmptyBuckets(htable)
        /\ htable.different_entries = NonEmptyBuckets(htable)
        /\ TotalEntries(htable, heap) = htable.different_entries + htable.collisions
        /\ htable.collisions >= 0
        /\ htable.different_entries >= 0

\* a successful delete out of a chain has just left a table that still has
\* collisions and an occupied bucket
C1_Witness ==
    /\ last.op = "delete"
    /\ last.branch \in {"head", "splice"}
    /\ htable.collisions >= 1
    /\ htable.different_entries >= 1

C3_InsertTwiceKeepsLast ==
    htable /= NullTable =>
        \A k \in Keys, v1 \in Vals :
            LET s1 == hashtable_insert(htable, heap, k, v1, char_signed)
            IN  \A v2 \in Vals :
                    LET s2 == hashtable_insert(s1.htable, s1.heap, k, v2, char_signed)
                        g  == hashtable_get(s2.htable, s2.heap, k, char_signed)
                    IN  /\ g /= NULL
                        /\ s2.heap[g].key = k
                        /\ s2.heap[g].val = v2
                        /\ s2.ret = g
                        /\ s2.htable.different_entries = s1.htable.different_entries
                        /\ s2.htable.collisions = s1.htable.collisions

\* an Insert has just updated the middle entry of a chain of three, and Get
\* returns the value it was given
C3_Witness ==
    /\ last.op = "insert"
    /\ last.branch = "update"
    /\ last.val = 1
    /\ \E i \in Buckets(htable) :
          LET c == Chain(htable, heap, i)
          IN  Len(c) = 3 /\ c[2] = last.ret
    /\ LET g == hashtable_get(htable, heap, last.key, char_signed)
       IN  g = last.ret /\ heap[g].val = 1

(***************************************************************************)
(* C4.  A key that was deleted (or never inserted) and not inserted since  *)
(* is reported not-found by Get, whatever was done to other keys since.    *)
(***************************************************************************)
C4_DeletedStaysAbsent ==
    \A k \in Keys :
        ~hist[k].stored => hashtable_get(htable, heap, k, char_signed) = NULL

\* Delete has just removed a key from a chain that keeps other entries, and
\* Get does not find it
C4_Witness ==
    /\ last.op = "delete"
    /\ last.branch \in {"head", "splice"}
    /\ ~hist[last.key].stored
    /\ hashtable_get(htable, heap, last.key, char_signed) = NULL
    /\ htable.table[hashtable_gethash(htable.size, last.key, char_signed)] /= NULL

(***************************************************************************)
(* C5.  Delete(k) of a present key returns the value stored for k; a sole  *)
(* entry leaves its bucket empty and only different_entries goes down by   *)
(* one; a head with successors makes the next entry the head and only      *)
(* collisions goes down by one; any other entry has its predecessor linked *)
(* to its successor and only collisions goes down by one.  The rest of the *)
(* chain keeps its entries, keys, values and order, and the removed entry  *)
(* is released.                                                            *)
(***************************************************************************)
\* the sequence c without its n-th element
Without(c, n) == [m \in 1..(Len(c) - 1) |-> IF m < n THEN c[m] ELSE c[m + 1]]

C5_DeleteCases ==
    htable /= NullTable =>
        \A k \in Keys :
            LET g == hashtable_get(htable, heap, k, char_signed)
                i == hashtable_gethash(htable.size, k, char_signed)
                c == Chain(htable, heap, i)
                n == PosIn(c, g)
                r == hashtable_delete(htable, heap, k, char_signed)
            IN  g /= NULL =>
                  /\ r.ret = heap[g].val
                  /\ n >= 1
                  /\ Chain(r.htable, r.heap, i) = Without(c, n)
                  /\ ChainPairs(r.htable, r.heap, i) = Without(ChainPairs(htable, heap, i), n)
                  /\ ~r.heap[g].live
                  /\ IF Len(c) = 1
                     THEN /\ r.htable.table[i] = NULL
                          /\ r.htable.different_entries = htable.different_entries - 1
                          /\ r.htable.collisions = htable.collisions
                     ELSE IF n = 1
                     THEN /\ r.htable.table[i] = c[2]
                          /\ r.htable.collisions = htable.collisions - 1
                          /\ r.htable.different_entries = htable.different_entries
                     ELSE /\ r.htable.table[i] = c[1]
                          /\ r.heap[c[n - 1]].next = heap[g].next
                          /\ r.htable.collisions = htable.collisions - 1
                          /\ r.htable.different_entries = htable.different_entries

\* Delete has just spliced an entry with value 1 out of a chain of three
C5_Witness ==
    /\ last.op = "delete"
    /\ last.branch = "splice"
    /\ last.ret = 1
    /\ \E i \in Buckets(htable) : Len(Chain(htable, heap, i)) = 2

(***************************************************************************)
(* C6.  Delete(k) of an absent key returns 0 and changes nothing: not the  *)
(* bucket array, not a counter, not an entry.                              *)
(***************************************************************************)
C6_DeleteAbsentNoChange ==
    htable /= NullTable =>
        \A k \in Keys :
            LET r == hashtable_delete(htable, heap, k, char_signed)
            IN  hashtable_get(htable, heap, k, char_signed) = NULL =>
                  /\ r.ret = 0
                  /\ r.htable = htable
                  /\ r.heap = heap
                  /\ r.branch \in {"empty", "absent"}

\* Delete has just looked for an absent key in a chain of two other keys
C6_Witness ==
    /\ last.op = "delete"
    /\ last.branch = "absent"
    /\ last.ret = 0
    /\ Len(Chain(htable, heap, hashtable_gethash(htable.size, last.key, char_signed))) = 2
    /\ htable.collisions = 1

(***************************************************************************)
(* C7.  Get(k1) returns not-found or an entry whose key is k1 and whose    *)
(* value is that of the latest Insert(k1, .); and no Insert or Delete of   *)
(* another key k2 changes what Get(k1) returns (the entry, its key, its    *)
(* value), also when k1 and k2 share a bucket.                             *)
(***************************************************************************)
\* what a caller sees of the entry at g
Seen(hp, g) == IF g = NULL THEN <<NULL>> ELSE <<g, hp[g].key, hp[g].val>>

C7_NoCrossMatch ==
    /\ \A k1 \in Keys :
          LET g == hashtable_get(htable, heap, k1, char_signed)
          IN  g /= NULL =>
                /\ heap[g].live
                /\ heap[g].key = k1
                /\ hist[k1].stored
                /\ heap[g].val = hist[k1].val
    /\ \A k2 \in Keys :
          /\ \A v \in Vals :
                LET r == hashtable_insert(htable, heap, k2, v, char_signed)
                IN  \A k1 \in Keys \ {k2} :
                        Seen(r.heap, hashtable_get(r.htable, r.heap, k1, char_signed))
                          = Seen(heap, hashtable_get(htable, heap, k1, char_signed))
          /\ LET r == hashtable_delete(htable, heap, k2, char_signed)
             IN  \A k1 \in Keys \ {k2} :
                     Seen(r.heap, hashtable_get(r.htable, r.heap, k1, char_signed))
                       = Seen(heap, hashtable_get(htable, heap, k1, char_signed))

\* two keys share a bucket with different values, the second just inserted,
\* and Get returns each key's own entry
C7_Witness ==
    /\ last.op = "insert"
    /\ last.branch = "append"
    /\ \E k1 \in Keys \ {last.key} :
          LET g1 == hashtable_get(htable, heap, k1, char_signed)
              g2 == hashtable_get(htable, heap, last.key, char_signed)
          IN  /\ g1 /= NULL /\ g2 /= NULL /\ g1 /= g2
              /\ hashtable_gethash(htable.size, k1, char_signed)
                   = hashtable_gethash(htable.size, last.key, char_signed)
              /\ heap[g1].val /= heap[g2].val
              /\ heap[g1].key = k1
              /\ heap[g2].key = last.key

(***************************************************************************)
(* C8.  Insert is idempotent: from every reachable table, Insert(k, v)     *)
(* twice leaves exactly the table that Insert(k, v) once leaves: same      *)
(* bucket array, same counters, same entries with the same links and       *)
(* values; and the second call returns the same entry.                     *)
(***************************************************************************)
C8_InsertIdempotent ==
    htable /= NullTable =>
        \A k \in Keys, v \in Vals :
            LET s1 == hashtable_insert(htable, heap, k, v, char_signed)
                s2 == hashtable_insert(s1.htable, s1.heap, k, v, char_signed)
            IN  /\ s2.htable = s1.htable
                /\ s2.heap = s1.heap
                /\ s2.ret = s1.ret

\* Insert(k, v) has just been made on a table whose chain for k holds two
\* entries, and making it again changes nothing
C8_Witness ==
    /\ last.op = "insert"
    /\ last.branch \in {"append", "update"}
    /\ htable.collisions >= 1
    /\ LET r == hashtable_insert(htable, heap, last.key, last.val, char_signed)
       IN  r.htable = htable /\ r.heap = heap /\ r.branch = "update"

C10_Original ==
    \A k1 \in Keys, k2 \in Keys :
        LET g1 == hashtable_get(htable, heap, k1, char_signed)
            g2 == hashtable_get(htable, heap, k2, char_signed)
        IN  (g1 /= NULL /\ g2 = NULL /\ heap[g1].val = 0) =>
              /\ g1 /= g2
              /\ hashtable_delete(htable, heap, k1, char_signed).ret
                   /= hashtable_delete(htable, heap, k2, char_signed).ret

(***************************************************************************)
(* C11.  While hashtable_delete removes an entry it found: the key buffer  *)
(* holds only zeros when it is released, and so does the entry record; the *)
(* record is not zeroed before the key buffer it points to has been zeroed *)
(* and released; val was read from the intact entry, so it is the stored   *)
(* value; once the entry is unlinked its chain is the old chain without    *)
(* it, and no chain of the table holds the entry or any zeroed or released *)
(* cell; and at the return the table and heap are those of                 *)
(* hashtable_delete taken as one step.                                     *)
(***************************************************************************)
C11_WipeBeforeRelease ==
    (del.pc /= "idle" /\ del.current_entry /= NULL) =>
        LET cur == del.current_entry
            pre == del.pre
            i   == hashtable_gethash(pre.htable.size, del.key, char_signed)
            c   == Chain(pre.htable, pre.heap, i)
            whole == hashtable_delete(pre.htable, pre.heap, del.key, char_signed)
        IN  /\ del.key_freed => del.key_residue = <<>>
            /\ del.entry_freed => del.entry_residue = ZeroEntry
            /\ del.entry_wiped => del.key_freed
            /\ del.entry_freed => del.entry_wiped
            /\ del.pc /= "read_val" =>
                  /\ del.val = pre.heap[cur].val
                  /\ del.val = hist[del.key].val
            /\ del.pc \notin {"read_val", "unlink"} =>
                  /\ Chain(htable, heap, i) = Without(c, PosIn(c, cur))
                  /\ \A b \in Buckets(htable) :
                        \A n \in 1..Len(Chain(htable, heap, b)) :
                            LET a == Chain(htable, heap, b)[n]
                            IN  /\ a /= cur
                                /\ heap[a].live
                                /\ heap[a].key = pre.heap[a].key
                                /\ heap[a].key /= <<>>
                                /\ heap[a].val = pre.heap[a].val
            /\ del.pc = "return_val" =>
                  /\ del.key_freed /\ del.entry_freed
                  /\ htable = whole.htable
                  /\ heap = whole.heap
                  /\ del.val = whole.ret

\* an entry with value 1 has been spliced out of the middle or end of its
\* chain, wiped and released, and the call is about to return 1
C11_Witness ==
    /\ del.pc = "return_val"
    /\ del.branch = "splice"
    /\ del.val = 1
    /\ del.key_freed /\ del.entry_freed
    /\ del.key_residue = <<>>
    /\ heap[del.current_entry] = FreeCell

(***************************************************************************)
(* C12.  As claimed: every entry pointer that Insert or Get handed to the  *)
(* caller, and that the caller still holds, points at an entry that has    *)
(* not been released.  hashtable_delete releases the entry and leaves the  *)
(* caller's pointer as it is, so this does not hold.                       *)
(***************************************************************************)
C12_Original ==
    \A e \in refs : heap[e].live

(***************************************************************************)
(* C13.  From every reachable table, for every key k and value v,          *)
(* Insert(k, v) and Delete(k) leave the size and the bucket array's index  *)
(* range as they were, and every bucket other than hash(size, k) keeps its *)
(* head, its entries (addresses, keys, values, links) and their order.     *)
(***************************************************************************)
\* the table r.htable, r.heap differs from ht, hp in bucket i at most
SameButBucket(ht, hp, r, i) ==
    /\ r.htable.size = ht.size
    /\ Buckets(r.htable) = Buckets(ht)
    /\ \A b \in Buckets(ht) \ {i} :
          /\ r.htable.table[b] = ht.table[b]
          /\ Chain(r.htable, r.heap, b) = Chain(ht, hp, b)
          /\ ChainPairs(r.htable, r.heap, b) = ChainPairs(ht, hp, b)
          /\ \A n \in 1..Len(Chain(ht, hp, b)) :
                r.heap[Chain(ht, hp, b)[n]] = hp[Chain(ht, hp, b)[n]]

C13_OneChainOnly ==
    htable /= NullTable =>
        \A k \in Keys :
            LET i == hashtable_gethash(htable.size, k, char_signed)
            IN  /\ SameButBucket(htable, heap,
                                 hashtable_delete(htable, heap, k, char_signed), i)
                /\ \A v \in Vals :
                      SameButBucket(htable, heap,
                                    hashtable_insert(htable, heap, k, v, char_signed), i)

\* an Insert into an empty bucket, or a Delete, has just been made on a
\* table of three buckets of which two others hold entries
C13_Witness ==
    /\ last.op \in {"insert", "delete"}
    /\ last.branch \in {"first", "sole"}
    /\ htable.size = 3
    /\ LET i == hashtable_gethash(htable.size, last.key, char_signed)
       IN  Cardinality({b \in Buckets(htable) \ {i} : htable.table[b] /= NULL}) = 2

(***************************************************************************)
(* C14.  As claimed: in hashtable_gethash no value (int)c + (hash << 5) +  *)
(* hash exceeds the 32-bit range, and the index returned is that of        *)
(* h = (c + h*33) mod m in unbounded arithmetic on the character's         *)
(* ordinal value.  The modulo keeps hash below m only, so for m above      *)
(* (2^32 - 1) / 33 the sum wraps and the index differs (stated here for    *)
(* keys of characters below 128 only).                                     *)
(***************************************************************************)
\* (c + h * 33) mod m for 0 <= h < m, without leaving the checker's integers
IdealBody(m, c, h) == AddMod(AddMod(ShlMod(h, 5, m), h, m), c % m, m)

RECURSIVE IdealLoop(_, _, _)
IdealLoop(m, key, st) ==
    IF st.ch > Len(key) THEN st.h
    ELSE IdealLoop(m, key, [ch |-> st.ch + 1, h |-> IdealBody(m, key[st.ch], st.h)])

IdealHash(m, key) == IdealLoop(m, key, [ch |-> 1, h |-> 0])

\* (int)c + 33 * hash <= 2^32 - 1, where (2^32 - 1) \div 33 = 130150524 and
\* (2^32 - 1) % 33 = 3; a negative (int)c wraps when it is made unsigned
NoWrap(c, hash, signed) ==
    LET iv == CharValue(c, signed)
    IN  iv >= 0 /\ hash <= 130150524 - ((iv + 29) \div 33)

\* the key's characters are all below 128, where (int)c is the ordinal value
\* whatever the signedness of char
Ascii(key) == \A n \in 1..Len(key) : key[n] < 128

C14_Original ==
    Ascii(hkey) =>
        /\ (hpc = "loop" /\ hch <= Len(hkey)) => NoWrap(hkey[hch], hhash, char_signed)
        /\ \A n \in 1..Len(hres) : hres[n] = IdealHash(hsize, hkey)

(***************************************************************************)
(* C15.  As claimed: in test_12_strings "8ct4xaucod" lands at index 7 and, *)
(* once the 12 inserts are made, different_entries = 12 and collisions is  *)
(* the number of entries that are not the head of their chain.  The 12     *)
(* keys fall into 8 buckets, so different_entries is 8.                    *)
(***************************************************************************)
\* the 12 inserts of test_12_strings have been made and nothing after them
AfterInserts == tpc = 13 /\ hpc = "idle"

C16_NullKey ==
    /\ \A v \in Vals :
          LET r == hashtable_insert(htable, heap, NULLKEY, v, char_signed)
          IN  /\ r.ret = NULL
              /\ r.branch = "invalid"
              /\ r.htable = htable
              /\ r.heap = heap
    /\ hashtable_get(htable, heap, NULLKEY, char_signed) = NULL
    /\ LET r == hashtable_delete(htable, heap, NULLKEY, char_signed)
       IN  /\ r.ret = 0
           /\ r.branch = "invalid"
           /\ r.htable = htable
           /\ r.heap = heap
    /\ (last.op \in {"insert", "delete", "get"} /\ last.key = NULLKEY) =>
          last.ret = NULL

\* Insert with a NULL key has just returned NULL on a table that holds a
\* chain of two entries
C16_Witness ==
    /\ last.op = "insert"
    /\ last.key = NULLKEY
    /\ last.ret = NULL
    /\ last.branch = "invalid"
    /\ htable /= NullTable
    /\ htable.collisions = 1

(***************************************************************************)
(* C17.  hashtable_newhashtable(size) returns NULL for size 0 and 1; for   *)
(* every size from 2 on it returns a table with that size, buckets         *)
(* 0..size-1 all NULL, and both counters 0.  The caller's table is what    *)
(* the call returned, and every table that exists has size >= 2 and as     *)
(* many buckets as its size, so no hash is taken modulo 0.                 *)
(***************************************************************************)
C17_NewTable ==
    /\ \A size \in (0..MaxSize) \cup {TestSize} :
          LET t == hashtable_newhashtable(size)
          IN  IF size < 2 THEN t = NullTable
              ELSE /\ t /= NullTable
                   /\ t.size = size
                   /\ Buckets(t) = 0..(size - 1)
                   /\ Cardinality(Buckets(t)) = size
                   /\ \A i \in Buckets(t) : t.table[i] = NULL
                   /\ t.different_entries = 0
                   /\ t.collisions = 0
    /\ htable /= NullTable =>
          /\ htable.size >= 2
          /\ Buckets(htable) = 0..(htable.size - 1)
    /\ last.op = "newhashtable" =>
          /\ htable = hashtable_newhashtable(last.val)
          /\ (last.val < 2) = (htable = NullTable)
          /\ (last.val < 2) = (last.ret = NULL)

\* hashtable_newhashtable(2) has just returned a table
C17_Witness ==
    /\ last.op = "newhashtable"
    /\ last.val = 2
    /\ last.ret /= NULL
    /\ htable.size = 2
    /\ htable.table = [i \in 0..1 |-> NULL]

(***************************************************************************)
(* C18.  Each chain lists its keys, head to tail, in the order in which    *)
(* their current entries were created.  From every reachable table:        *)
(* Insert of a key that is absent from a non-empty bucket leaves the       *)
(* chain as it was with the new entry added at its tail; Insert of a       *)
(* present key leaves the chain's entries and their order as they were;    *)
(* Delete of a present key leaves the other entries in their order.        *)
(***************************************************************************)
\* the keys of the chain of bucket b, head to tail
KeysOf(ht, hp, b) ==
    LET c == Chain(ht, hp, b) IN [n \in 1..Len(c) |-> hp[c[n]].key]

\* the keys of `order` that hash to bucket b, in their order
CreatedIn(b) ==
    LET here(k) == hashtable_gethash(htable.size, k, char_signed) = b
    IN  SelectSeq(order, here)

C18_ChainOrder ==
    htable /= NullTable =>
        /\ \A b \in Buckets(htable) : KeysOf(htable, heap, b) = CreatedIn(b)
        /\ \A k \in Keys :
              LET i == hashtable_gethash(htable.size, k, char_signed)
                  c == Chain(htable, heap, i)
                  g == hashtable_get(htable, heap, k, char_signed)
                  d == hashtable_delete(htable, heap, k, char_signed)
              IN  /\ \A v \in Vals :
                        LET r == hashtable_insert(htable, heap, k, v, char_signed)
                        IN  /\ (g = NULL /\ c /= <<>>) =>
                                  /\ Chain(r.htable, r.heap, i) = Append(c, r.ret)
                                  /\ KeysOf(r.htable, r.heap, i)
                                       = Append(KeysOf(htable, heap, i), k)
                                  /\ r.heap[r.ret].next = NULL
                            /\ g /= NULL =>
                                  /\ Chain(r.htable, r.heap, i) = c
                                  /\ KeysOf(r.htable, r.heap, i) = KeysOf(htable, heap, i)
                  /\ g /= NULL =>
                        /\ Chain(d.htable, d.heap, i) = Without(c, PosIn(c, g))
                        /\ KeysOf(d.htable, d.heap, i)
                             = Without(KeysOf(htable, heap, i), PosIn(c, g))

\* "c", "a", "ab" were created in that order in one bucket, and its chain
\* lists them so
C18_Witness ==
    /\ order = << <<99>>, <<97>>, <<97, 98>> >>
    /\ \E b \in Buckets(htable) :
          /\ KeysOf(htable, heap, b) = order
          /\ Len(Chain(htable, heap, b)) = 3

(***************************************************************************)
(* C19.  In every reachable state every entry of a chain is in the bucket  *)
(* whose index is the hash of its key, no two entries of the table (in one *)
(* chain or in two) hold the same key, and the keys held are exactly the   *)
(* keys stored and not deleted; so hashtable_get can match one entry at    *)
(* most.                                                                   *)
(***************************************************************************)
\* the positions <<b, n>> of all entries: n-th entry of the chain of bucket b
Positions(ht, hp) ==
    {p \in Buckets(ht) \X (1..Cardinality(DOMAIN hp)) :
        p[2] <= Len(Chain(ht, hp, p[1]))}

C19_UniqueKeys ==
    htable /= NullTable =>
        /\ \A p \in Positions(htable, heap) :
              LET a == Chain(htable, heap, p[1])[p[2]]
              IN  /\ heap[a].live
                  /\ hashtable_gethash(htable.size, heap[a].key, char_signed) = p[1]
        /\ \A p \in Positions(htable, heap), q \in Positions(htable, heap) :
              heap[Chain(htable, heap, p[1])[p[2]]].key
                = heap[Chain(htable, heap, q[1])[q[2]]].key => p = q
        /\ {heap[Chain(htable, heap, p[1])[p[2]]].key : p \in Positions(htable, heap)}
             = StoredKeys
        /\ \A k \in Keys :
              Cardinality({a \in DOMAIN heap : heap[a].live /\ heap[a].key = k}) <= 1

\* Insert has just found its key in a table of three entries and updated it
C19_Witness ==
    /\ last.op = "insert"
    /\ last.branch = "update"
    /\ Cardinality(Positions(htable, heap)) = 3
    /\ Cardinality(StoredKeys) = 3

(***************************************************************************)
(* C20.  From every reachable table, for every key k absent from it and    *)
(* every value v: Insert(k, v) followed at once by Delete(k) returns v and *)
(* leaves the table struct (bucket array, size, both counters) and every   *)
(* cell of the heap exactly as before the Insert, whether k's bucket was   *)
(* empty (first entry, then sole entry removed) or held a chain (appended, *)
(* then spliced out).                                                      *)
(***************************************************************************)
C20_InsertDeleteRoundTrip ==
    htable /= NullTable =>
        \A k \in Keys :
            hashtable_get(htable, heap, k, char_signed) = NULL =>
                \A v \in Vals :
                    LET s == hashtable_insert(htable, heap, k, v, char_signed)
                        d == hashtable_delete(s.htable, s.heap, k, char_signed)
                        i == hashtable_gethash(htable.size, k, char_signed)
                    IN  /\ d.ret = v
                        /\ d.htable = htable
                        /\ d.heap = heap
                        /\ \A b \in Buckets(htable) :
                              ChainPairs(d.htable, d.heap, b) = ChainPairs(htable, heap, b)
                        /\ IF htable.table[i] = NULL
                           THEN s.branch = "first" /\ d.branch = "sole"
                           ELSE s.branch = "append" /\ d.branch = "splice"

\* Insert has just appended a key with value 1 to a chain, and Delete of
\* that key now returns 1 and leaves the key absent
C20_Witness ==
    /\ last.op = "insert"
    /\ last.branch = "append"
    /\ last.val = 1
    /\ LET d == hashtable_delete(htable, heap, last.key, char_signed)
       IN  /\ d.ret = 1
           /\ d.branch = "splice"
           /\ hashtable_get(d.htable, d.heap, last.key, char_signed) = NULL
           /\ d.htable.collisions = htable.collisions - 1

====
